---- MODULE Spec2Model ----
(***************************************************************************)
(* Model of the PDF ingestion and retrieval pipeline:                      *)
(*   src/src/embeddings.py    PostgresEmbeddingManager (the documents      *)
(*                            table, upsert, search, delete, update)       *)
(*   src/src/pdf_processor.py PDFProcessor (the extraction tiers, the      *)
(*                            folder loop, split_pdf_content)              *)
(*   src/src/utils.py         split_text_into_chunks, clean_text,          *)
(*                            validate_pdf_file                            *)
(*   src/main.py              process_pdfs                                 *)
(*   src/src/agent.py         SocialPhobiaAgent (conversation history)     *)
(*                                                                         *)
(* Similarities are cosine similarities scaled by 100 (0.7 is 70).  Every  *)
(* embedding of the model has Euclidean norm 10, so the cosine of two      *)
(* embeddings is their dot product divided by 100.                         *)
(***************************************************************************)
EXTENDS Integers, Sequences, FiniteSets, TLC

----------------------------------------------------------------------------
(* Bounds of the model *)

\* most chunks one ingested file version yields
MaxChunks == 2
\* CURRENT_TIMESTAMP values the store hands out before writes stop
MaxClock == 2
\* values of the SERIAL id column handed out before inserts stop
MaxId == 2
\* max_chunk_size and overlap of split_pdf_content (1000 and 200 in the
\* source), scaled down to the texts of the model
MaxChunkSize == 5
ChunkOverlap == 1
\* iterations of the while loop of split_text_into_chunks that are followed
MaxSplitSteps == 8
\* longest text, largest max_chunk_size and largest overlap the chunker is
\* called with on its own
MaxTextLen == 6
MaxWindowSize == 4
MaxOverlap == 2
\* fewest characters of native text that keep OCR away (50 in the source),
\* scaled down to the page texts of the model
MinTextLength == 3
\* add_to_history keeps the last HistoryLimit messages (20 in the source)
HistoryLimit == 4
\* the messages added to the history between two clears
MaxAdded == 6
\* most pages of a PDF, most PDFs of a folder
MaxPages == 2
MaxFolderLen == 2

(* Program constants *)

\* config/settings.py TOP_K_RESULTS
TOP_K_RESULTS == 5
\* config/settings.py SIMILARITY_THRESHOLD = 0.7, in hundredths
SIMILARITY_THRESHOLD == 70

\* Python None / SQL NULL
None == "None"

Filenames == {"a.pdf", "b.pdf"}

\* chunk contents a caller may store, and the query texts
Texts == <<"t1", "t2", "t3">>
Queries == {"t1", "q0"}

----------------------------------------------------------------------------
(* The embedding provider and cosine similarity *)

\* client.embeddings.create(input=text): a fixed vector per text
EmbeddingOf(text) ==
    CASE text = "t1" -> <<10, 0, 0, 0>>
      [] text = "t2" -> <<7, 7, 1, 1>>
      [] text = "t3" -> <<8, 6, 0, 0>>
      [] OTHER       -> <<0, 0, 10, 0>>

Dot(a, b) == a[1]*b[1] + a[2]*b[2] + a[3]*b[3] + a[4]*b[4]

Norm(a) == CHOOSE n \in 0..20 : n * n = Dot(a, a)

\* pgvector a <=> b, cosine distance, times 100
CosineDistance(a, b) == 100 - ((100 * Dot(a, b)) \div (Norm(a) * Norm(b)))

\* generate_embeddings(texts): the call for text number failAt raises
\* (failAt = 0: every call succeeds)
generate_embeddings(texts, failAt) ==
    IF failAt \in 1..Len(texts)
    THEN [raised |-> TRUE, embeddings |-> << >>]
    ELSE [raised |-> FALSE,
          embeddings |-> [i \in 1..Len(texts) |-> EmbeddingOf(texts[i])]]

----------------------------------------------------------------------------
(* The documents table *)

VARIABLES
    rows,      \* the rows of table documents
    nextId,    \* next value of the SERIAL id sequence
    clock,     \* last CURRENT_TIMESTAMP handed to a committed write
    last,      \* the last call and what it returned to its caller
    splitter,  \* a call of split_text_into_chunks, one loop iteration a step
    extraction, \* a call of extract_text_from_pdf, process_pdf_folder or
               \* clean_text
    adds,      \* two calls of add_documents that run at the same time
    chunking,  \* a call of split_pdf_content and the dicts it has in memory
    agent      \* the SocialPhobiaAgent: its history and its last call

vars ==
    <<rows, nextId, clock, last, splitter, extraction, adds, chunking, agent>>

\* the store and the last call on it
storeVars == <<rows, nextId, clock, last>>

\* the state outside the store and its callers
elsewhere == <<splitter, extraction, adds, chunking, agent>>

SameKey(r, filename, chunk_id) ==
    r.filename = filename /\ r.chunk_id = chunk_id

\* ON CONFLICT (filename, chunk_id) DO UPDATE SET ...
OnConflictUpdate(r, doc, emb, now) ==
    [r EXCEPT !.content = doc.content,
              !.embedding = emb,
              !.metadata = doc.metadata,
              !.created_at = now]

InsertRow(tbl, doc, emb, now) ==
    [rows |-> tbl.rows \cup
                {[id |-> tbl.nextId,
                  filename |-> doc.filename,
                  file_hash |-> doc.file_hash,
                  chunk_id |-> doc.chunk_id,
                  content |-> doc.content,
                  embedding |-> emb,
                  metadata |-> doc.metadata,
                  created_at |-> now]},
     nextId |-> tbl.nextId + 1]

\* faulty variant: the table without its UNIQUE(filename, chunk_id) constraint
Upsert_no_unique(tbl, doc, emb, now) == InsertRow(tbl, doc, emb, now)

\* one INSERT ... ON CONFLICT statement against UNIQUE(filename, chunk_id)
Upsert(tbl, doc, emb, now) ==
    IF \E r \in tbl.rows : SameKey(r, doc.filename, doc.chunk_id)
    THEN [rows |-> {IF SameKey(r, doc.filename, doc.chunk_id)
                    THEN OnConflictUpdate(r, doc, emb, now)
                    ELSE r : r \in tbl.rows},
          nextId |-> tbl.nextId]
    ELSE InsertRow(tbl, doc, emb, now)

\* the keys add_documents reads from every document
StoreKeys == {"filename", "file_hash", "chunk_id", "content"}

\* doc.get('metadata', {})
WithMetadata(doc) ==
    IF "metadata" \in DOMAIN doc
    THEN doc
    ELSE [k \in DOMAIN doc \cup {"metadata"} |->
            IF k = "metadata" THEN {} ELSE doc[k]]

\* the loop of cursor.execute calls of add_documents, from document i on;
\* statement number storeFail raises in the store
RECURSIVE ExecuteUpserts(_, _, _, _, _, _)
ExecuteUpserts(tbl, documents, embeddings, i, storeFail, now) ==
    IF i > Len(documents)
    THEN [raised |-> FALSE, tbl |-> tbl]
    ELSE IF i = storeFail \/ ~(StoreKeys \subseteq DOMAIN documents[i])
         THEN [raised |-> TRUE, tbl |-> tbl]
         ELSE ExecuteUpserts(
                  Upsert(tbl, WithMetadata(documents[i]), embeddings[i], now),
                  documents, embeddings, i + 1, storeFail, now)

\* faulty variant: every statement is committed on its own (autocommit)
EndTransaction_autocommit(before, after, raised) == after

\* with conn: commit when the block ends normally, rollback when it raises
EndTransaction(before, after, raised) ==
    IF raised THEN before ELSE after

\* add_documents(documents) -> bool, on table tbl at time now
AddDocuments(tbl, documents, provFail, storeFail, now) ==
    IF \E i \in 1..Len(documents) : "content" \notin DOMAIN documents[i]
    THEN [ok |-> FALSE, tbl |-> tbl]
    ELSE LET texts == [i \in 1..Len(documents) |-> documents[i].content]
             gen == generate_embeddings(texts, provFail)
         IN  IF gen.raised
             THEN [ok |-> FALSE, tbl |-> tbl]
             ELSE LET run == ExecuteUpserts(tbl, documents, gen.embeddings,
                                            1, storeFail, now)
                      raised == run.raised \/ storeFail = Len(documents) + 1
                  IN  [ok |-> ~raised,
                       tbl |-> EndTransaction(tbl, run.tbl, raised)]

\* get_collection_info()
get_collection_info(rs) ==
    [total_documents |-> Cardinality(rs),
     unique_files |-> Cardinality({r.filename : r \in rs}),
     files |-> {r.filename : r \in rs}]

\* UPDATE documents SET ... WHERE filename = %s AND chunk_id = %s
UpdateWhere(rs, filename, chunk_id, content, emb, metadata, now) ==
    {IF SameKey(r, filename, chunk_id)
     THEN [r EXCEPT !.content = content,
                    !.embedding = emb,
                    !.metadata = metadata,
                    !.created_at = now]
     ELSE r : r \in rs}

\* update_document(filename, chunk_id, content, metadata=None) -> bool;
\* metadata is {} for None and {m} for the map m
UpdateDocument(rs, filename, chunk_id, content, metadata, pFail, sFail, now) ==
    LET gen == generate_embeddings(<<content>>, pFail)
        meta == IF metadata = {} THEN {} ELSE CHOOSE m \in metadata : TRUE
    IN  IF gen.raised \/ sFail
        THEN [ok |-> FALSE, rows |-> rs]
        ELSE [ok |-> TRUE,
              rows |-> UpdateWhere(rs, filename, chunk_id, content,
                                   gen.embeddings[1], meta, now)]

\* faulty variant: "if chunk_id:" takes chunk 0 for an omitted chunk_id
DeleteWhere_falsy(rs, filename, chunk_id) ==
    IF chunk_id # {} /\ chunk_id # {0}
    THEN {r \in rs : ~(r.filename = filename /\ r.chunk_id \in chunk_id)}
    ELSE {r \in rs : r.filename # filename}

\* the DELETE statement of delete_document; chunk_id is {} for None and
\* {i} for chunk i
DeleteWhere(rs, filename, chunk_id) ==
    IF chunk_id # {}
    THEN {r \in rs : ~(r.filename = filename /\ r.chunk_id \in chunk_id)}
    ELSE {r \in rs : r.filename # filename}

\* delete_document(filename, chunk_id=None) -> bool
DeleteDocument(rs, filename, chunk_id, storeFail) ==
    IF storeFail
    THEN [ok |-> FALSE, rows |-> rs]
    ELSE [ok |-> TRUE, rows |-> DeleteWhere(rs, filename, chunk_id)]

\* clear_collection() -> bool
ClearCollection(rs, storeFail) ==
    IF storeFail
    THEN [ok |-> FALSE, rows |-> rs]
    ELSE [ok |-> TRUE, rows |-> {}]

----------------------------------------------------------------------------
(* Similarity search *)

\* 1 - (embedding <=> query_embedding)
Similarity(r, q) == 100 - CosineDistance(r.embedding, q)

\* faulty variant: the filter keeps a row that only equals the threshold
WhereSimilar_inclusive(rs, q) ==
    {r \in rs : Similarity(r, q) >= SIMILARITY_THRESHOLD}

\* WHERE 1 - (embedding <=> %s) > %s
WhereSimilar(rs, q) ==
    {r \in rs : Similarity(r, q) > SIMILARITY_THRESHOLD}

\* faulty variant: ORDER BY embedding <=> %s DESC
RECURSIVE OrderByDistance_desc(_, _)
OrderByDistance_desc(rs, q) ==
    IF rs = {}
    THEN {<< >>}
    ELSE UNION {{<<r>> \o s : s \in OrderByDistance_desc(rs \ {r}, q)} :
                r \in {x \in rs : \A y \in rs :
                          CosineDistance(x.embedding, q)
                              >= CosineDistance(y.embedding, q)}}

\* ORDER BY embedding <=> %s: every order of the rows by ascending distance
\* (rows at the same distance come in any order)
RECURSIVE OrderByDistance(_, _)
OrderByDistance(rs, q) ==
    IF rs = {}
    THEN {<< >>}
    ELSE UNION {{<<r>> \o s : s \in OrderByDistance(rs \ {r}, q)} :
                r \in {x \in rs : \A y \in rs :
                          CosineDistance(x.embedding, q)
                              <= CosineDistance(y.embedding, q)}}

\* LIMIT %s
Limit(s, n) == SubSeq(s, 1, IF n < Len(s) THEN n ELSE Len(s))

\* "if not top_k: top_k = self.top_k"; top_k is {} for None, {k} for k
EffectiveTopK(top_k) ==
    IF top_k = {} \/ top_k = {0}
    THEN TOP_K_RESULTS
    ELSE CHOOSE k \in top_k : TRUE

\* the dict search_similar builds from a fetched row
ResultRow(r, q) ==
    [id |-> r.id, filename |-> r.filename, chunk_id |-> r.chunk_id,
     content |-> r.content, metadata |-> r.metadata,
     similarity |-> Similarity(r, q)]

\* what the except branch of search_similar returns
SearchError == << >>

\* search_similar(query, top_k=None): the set of lists it may return
SearchSimilar(rs, query, top_k, provFail, storeFail) ==
    LET gen == generate_embeddings(<<query>>, provFail)
    IN  IF gen.raised \/ storeFail
        THEN {SearchError}
        ELSE LET q == gen.embeddings[1]
             IN  {[i \in 1..Len(Limit(s, EffectiveTopK(top_k))) |->
                      ResultRow(s[i], q)] :
                  s \in OrderByDistance(WhereSimilar(rs, q), q)}

----------------------------------------------------------------------------
(* Chunking: texts are sequences of characters, offsets are Python's      *)
(* 0-based offsets                                                         *)

Whitespace == {" ", "\n", "\t"}

\* a slice bound as Python clamps it: negative bounds count from the end
SliceIndex(i, n) ==
    IF i < 0
    THEN (IF i + n < 0 THEN 0 ELSE i + n)
    ELSE (IF i > n THEN n ELSE i)

\* text[a:b]
Slice(text, a, b) ==
    LET lo == SliceIndex(a, Len(text))
        hi == SliceIndex(b, Len(text))
    IN  IF lo >= hi THEN << >> ELSE SubSeq(text, lo + 1, hi)

\* text.rfind(ch, a, b)
rfind(text, ch, a, b) ==
    LET lo == SliceIndex(a, Len(text))
        hi == SliceIndex(b, Len(text))
        found == {i \in lo..(hi - 1) : text[i + 1] = ch}
    IN  IF found = {}
        THEN -1
        ELSE CHOOSE i \in found : \A j \in found : j <= i

\* s.strip()
strip(s) ==
    LET keep == {i \in 1..Len(s) : s[i] \notin Whitespace}
    IN  IF keep = {}
        THEN << >>
        ELSE SubSeq(s, CHOOSE i \in keep : \A j \in keep : i <= j,
                       CHOOSE i \in keep : \A j \in keep : j <= i)

\* faulty variant: a text of exactly max_chunk_size characters enters the loop
FitsInOneChunk_strict(text, max_chunk_size) == Len(text) < max_chunk_size

\* the test that returns the text as its only chunk
FitsInOneChunk(text, max_chunk_size) == Len(text) <= max_chunk_size

\* faulty variant: the right edge is never moved back to a space
WindowEnd_no_retract(text, max_chunk_size, start) == start + max_chunk_size

\* the right edge of the window that starts at start: start + max_chunk_size,
\* moved back to the last space of the window when the window ends before
\* the text does and that space is not the window's first character
WindowEnd(text, max_chunk_size, start) ==
    LET end == start + max_chunk_size
        last_space == rfind(text, " ", start, end)
    IN  IF end < Len(text) /\ last_space > start
        THEN last_space
        ELSE end

\* faulty variant: the next window starts where this one ended
NextStart_no_overlap(end, overlap) == end

\* the start of the next window
NextStart(end, overlap) == end - overlap

\* faulty variant: a window that holds only whitespace yields a chunk too
AppendChunk_blank(chunks, chunk) == Append(chunks, chunk)

\* lines 84-86: a chunk that is empty once trimmed is dropped
AppendChunk(chunks, chunk) ==
    IF chunk # << >> THEN Append(chunks, chunk) ELSE chunks

\* the while loop of split_text_into_chunks from window start on; done is
\* FALSE when the loop is still running after fuel iterations
RECURSIVE SplitLoop(_, _, _, _, _, _)
SplitLoop(text, max_chunk_size, overlap, start, chunks, fuel) ==
    IF ~(start < Len(text))
    THEN [done |-> TRUE, chunks |-> chunks]
    ELSE IF fuel = 0
    THEN [done |-> FALSE, chunks |-> chunks]
    ELSE LET end == WindowEnd(text, max_chunk_size, start)
             chunk == strip(Slice(text, start, end))
             chunks1 == AppendChunk(chunks, chunk)
         IN  SplitLoop(text, max_chunk_size, overlap,
                       NextStart(end, overlap), chunks1, fuel - 1)

\* split_text_into_chunks(text, max_chunk_size, overlap)
split_text_into_chunks(text, max_chunk_size, overlap) ==
    IF FitsInOneChunk(text, max_chunk_size)
    THEN [done |-> TRUE, chunks |-> <<text>>]
    ELSE SplitLoop(text, max_chunk_size, overlap, 0, << >>, MaxSplitSteps)

----------------------------------------------------------------------------
(* Text extraction *)

\* \w, and the punctuation clean_text keeps
WordChars == {"a", "b"}
Punctuation == {".", ",", "!", "?", ";", ":", "-", "(", ")", "[", "]"}

RECURSIVE DropLeadingWhitespace(_)
DropLeadingWhitespace(text) ==
    IF text # << >> /\ Head(text) \in Whitespace
    THEN DropLeadingWhitespace(Tail(text))
    ELSE text

\* re.sub(r'\s+', ' ', text)
RECURSIVE CollapseWhitespace(_)
CollapseWhitespace(text) ==
    IF text = << >>
    THEN << >>
    ELSE IF Head(text) \in Whitespace
    THEN <<" ">> \o CollapseWhitespace(DropLeadingWhitespace(text))
    ELSE <<Head(text)>> \o CollapseWhitespace(Tail(text))

\* re.sub(r'[^\w\s\.\,\!\?\;\:\-\(\)\[\]]', '', text)
RemoveSpecial(text) ==
    LET Kept(c) == c \in WordChars \cup Whitespace \cup Punctuation
    IN  SelectSeq(text, Kept)

\* re.sub(r'\n\s*\n', '\n\n', text): a newline, the longest run of
\* whitespace after it that ends in a newline
RECURSIVE CollapseBlankLines(_)
CollapseBlankLines(text) ==
    IF text = << >>
    THEN << >>
    ELSE LET rest == Tail(text)
             run == Len(rest) - Len(DropLeadingWhitespace(rest))
             newlines == {j \in 1..run : rest[j] = "\n"}
             last_newline == CHOOSE j \in newlines :
                                 \A k \in newlines : k <= j
         IN  IF Head(text) = "\n" /\ newlines # {}
             THEN <<"\n", "\n">>
                    \o CollapseBlankLines(SubSeq(rest, last_newline + 1,
                                                 Len(rest)))
             ELSE <<Head(text)>> \o CollapseBlankLines(rest)

\* clean_text(text)
clean_text(text) ==
    IF text = << >>
    THEN << >>
    ELSE strip(CollapseBlankLines(RemoveSpecial(CollapseWhitespace(text))))

\* suffix.lower()
Lower(suffix) == IF suffix = ".PDF" THEN ".pdf" ELSE suffix

\* faulty variant: the extension is compared as it is written
validate_pdf_file_case_sensitive(file) ==
    /\ file.exists
    /\ file.suffix = ".pdf"
    /\ file.size # 0

\* validate_pdf_file(file_path)
validate_pdf_file(file) ==
    /\ file.exists
    /\ Lower(file.suffix) = ".pdf"
    /\ file.size # 0

\* faulty variant: the first page that raises ends the loop of its tier
RECURSIVE ReadPages_until_error(_, _)
ReadPages_until_error(text, pages) ==
    IF pages = << >> \/ Head(pages).raises
    THEN text
    ELSE ReadPages_until_error(IF Head(pages).text # << >>
                               THEN text \o Head(pages).text \o <<"\n">>
                               ELSE text,
                               Tail(pages))

\* the page loop of a tier: the text of every page that yields text, each
\* followed by a newline, appended to text; a page that raises is skipped
RECURSIVE ReadPages(_, _)
ReadPages(text, pages) ==
    IF pages = << >>
    THEN text
    ELSE LET page == Head(pages)
         IN  ReadPages(IF ~page.raises /\ page.text # << >>
                       THEN text \o page.text \o <<"\n">>
                       ELSE text,
                       Tail(pages))

\* _try_text_extraction(pdf_path): PyPDF2, then pdfplumber appending to the
\* text PyPDF2 left; tiers lists the libraries that were tried
try_text_extraction(file) ==
    LET pypdf2 == IF file.pypdf2.opens
                  THEN ReadPages(<< >>, file.pypdf2.pages)
                  ELSE << >>
        pdfplumber == IF file.pdfplumber.opens
                      THEN ReadPages(pypdf2, file.pdfplumber.pages)
                      ELSE pypdf2
    IN  IF file.pypdf2.opens /\ strip(pypdf2) # << >>
        THEN [text |-> pypdf2, method |-> "standard_extraction",
              tiers |-> <<"pypdf2">>]
        ELSE IF file.pdfplumber.opens /\ strip(pdfplumber) # << >>
        THEN [text |-> pdfplumber, method |-> "pdfplumber",
              tiers |-> <<"pypdf2", "pdfplumber">>]
        ELSE [text |-> pdfplumber, method |-> "standard_extraction",
              tiers |-> <<"pypdf2", "pdfplumber">>]

\* _extract_text_with_ocr(pdf_path): raises when the document cannot be
\* opened
extract_text_with_ocr(file) ==
    IF file.ocr.opens
    THEN [raised |-> FALSE, text |-> ReadPages(<< >>, file.ocr.pages),
          method |-> "ocr"]
    ELSE [raised |-> TRUE, text |-> << >>, method |-> "ocr"]

\* faulty variant: a text of exactly the minimum length goes to OCR
TextInsufficient_inclusive(text) ==
    text = << >> \/ Len(strip(text)) <= MinTextLength

\* the test that sends the file to OCR
TextInsufficient(text) ==
    text = << >> \/ Len(strip(text)) < MinTextLength

\* faulty variant: the native text is kept when the OCR recognises nothing
TierResult_keep_native(use_ocr, native, ocr) ==
    IF use_ocr /\ ocr.text # << >> THEN ocr ELSE native

\* lines 50-54: text and metadata are those of the OCR when it was invoked
TierResult(use_ocr, native, ocr) == IF use_ocr THEN ocr ELSE native

\* generate_file_hash(pdf_path)
generate_file_hash(pdf) == <<"md5", pdf.name>>

\* what a call of extract_text_from_pdf comes to: the exception it raised
\* ("none" when it returned), the text and metadata it returned, and the
\* tiers it tried on the way
Extracted(raised, text, metadata, tiers) ==
    [raised |-> raised, text |-> text, metadata |-> metadata,
     tiers |-> tiers]

\* extract_text_from_pdf(pdf_path)
extract_text_from_pdf(file) ==
    LET native == try_text_extraction(file)
        use_ocr == TextInsufficient(native.text)
        ocr == extract_text_with_ocr(file)
        found == TierResult(use_ocr, native, ocr)
        tiers == IF use_ocr THEN native.tiers \o <<"ocr">> ELSE native.tiers
        text == clean_text(found.text)
    IN  IF ~validate_pdf_file(file)
        THEN Extracted("ValueError", << >>, {}, << >>)
        ELSE IF use_ocr /\ ocr.raised
        THEN Extracted("Exception", << >>, {}, tiers)
        ELSE Extracted("none", text,
                       {<<"method", found.method>>,
                        <<"file_path", file.name>>,
                        <<"file_hash", generate_file_hash(file)>>,
                        <<"text_length", Len(text)>>,
                        <<"processing_method", found.method>>},
                       tiers)

----------------------------------------------------------------------------
(* The agent's conversation history *)

Message(role, content) == [role |-> role, content |-> content]

\* faulty variant: the history is never cut
add_to_history_untrimmed(history, role, content) ==
    Append(history, Message(role, content))

\* add_to_history(role, content): append, then keep the last HistoryLimit
add_to_history(history, role, content) ==
    LET appended == Append(history, Message(role, content))
    IN  IF Len(appended) > HistoryLimit
        THEN SubSeq(appended, Len(appended) - HistoryLimit + 1, Len(appended))
        ELSE appended

\* get_relevant_documents(query): a failing search gives no documents
get_relevant_documents(retrieval) ==
    IF retrieval = "error" THEN << >> ELSE <<"doc">>

\* the except branch of generate_response returns this text
ErrorMessage == <<"e">>

\* lines 139-150 raise: the completion call fails, or the message it
\* returns has no content to strip
CompletionRaises(completion) ==
    completion.raises \/ completion.content = {}

\* generate_response(user_question) on a history: the history it leaves and
\* the text it returns; completion.content is {} for None and {c} for c
generate_response(history, user_question, retrieval, completion) ==
    LET relevant_docs == get_relevant_documents(retrieval)
        assistant_response == strip(CHOOSE c \in completion.content : TRUE)
    IN  IF CompletionRaises(completion)
        THEN [history |-> history, response |-> ErrorMessage,
              documents |-> relevant_docs]
        ELSE [history |-> add_to_history(
                              add_to_history(history, "user", user_question),
                              "assistant", assistant_response),
              response |-> assistant_response,
              documents |-> relevant_docs]

----------------------------------------------------------------------------
(* Folder ingestion *)

\* faulty variant: the first PDF whose extraction raises ends the loop
RECURSIVE process_pdf_folder_aborting(_)
process_pdf_folder_aborting(folder) ==
    IF folder = << >>
    THEN << >>
    ELSE LET pdf == Head(folder)
             extracted == extract_text_from_pdf(pdf)
         IN  IF extracted.raised # "none"
             THEN << >>
             ELSE IF strip(extracted.text) # << >>
             THEN <<[file_path |-> pdf.name,
                     text |-> extracted.text,
                     metadata |-> extracted.metadata]>>
                  \o process_pdf_folder_aborting(Tail(folder))
             ELSE process_pdf_folder_aborting(Tail(folder))

\* process_pdf_folder: the PDFs whose extraction did not raise and whose
\* text is not blank, in folder order
RECURSIVE process_pdf_folder(_)
process_pdf_folder(folder) ==
    IF folder = << >>
    THEN << >>
    ELSE LET pdf == Head(folder)
             extracted == extract_text_from_pdf(pdf)
             rest == process_pdf_folder(Tail(folder))
         IN  IF extracted.raised = "none" /\ strip(extracted.text) # << >>
             THEN <<[file_path |-> pdf.name,
                     text |-> extracted.text,
                     metadata |-> extracted.metadata]>>
                  \o rest
             ELSE rest

MetadataGet(metadata, key) == (CHOOSE kv \in metadata : kv[1] = key)[2]

\* split_pdf_content(pdf_content, max_chunk_size, overlap): the chunk dicts
ChunkDicts(pdf_content, chunks) ==
    [i \in 1..Len(chunks) |->
        [chunk_id |-> <<MetadataGet(pdf_content.metadata, "file_hash"),
                        i - 1>>,
         file_path |-> MetadataGet(pdf_content.metadata, "file_path"),
         file_hash |-> MetadataGet(pdf_content.metadata, "file_hash"),
         chunk_index |-> i - 1,
         total_chunks |-> Len(chunks),
         text |-> chunks[i],
         metadata |-> pdf_content.metadata]]

split_pdf_content(pdf_content, max_chunk_size, overlap) ==
    LET split == split_text_into_chunks(pdf_content.text, max_chunk_size,
                                        overlap)
    IN  [done |-> split.done,
         chunks |-> ChunkDicts(pdf_content, split.chunks)]

\* faulty variant: every chunk is given the metadata dict of the document
dict_copy_alias(heap, dict) == [heap |-> heap, dict |-> dict]

\* metadata.copy(): a new dict object that holds the items of the old one.
\* The heap is the sequence of the dict objects, a dict is known by its place
dict_copy(heap, dict) ==
    [heap |-> Append(heap, heap[dict]), dict |-> Len(heap) + 1]

\* d[key] = value
SetItem(d, key, value) == {kv \in d : kv[1] # key} \cup {<<key, value>>}

\* lines 228-239: the loop of split_pdf_content over the dicts of the heap,
\* from chunk i on; metadata is the dict object of pdf_content['metadata']
RECURSIVE ChunkData(_, _, _, _, _, _)
ChunkData(heap, pdf_content, metadata, chunks, i, result) ==
    IF i > Len(chunks)
    THEN [heap |-> heap, result |-> result]
    ELSE LET copy == dict_copy(heap, metadata)
             chunk_data == [ChunkDicts(pdf_content, chunks)[i]
                                EXCEPT !.metadata = copy.dict]
         IN  ChunkData(copy.heap, pdf_content, metadata, chunks, i + 1,
                       Append(result, chunk_data))

\* the loop of process_pdfs that collects all_chunks
RECURSIVE AllChunks(_)
AllChunks(pdf_contents) ==
    IF pdf_contents = << >>
    THEN [done |-> TRUE, chunks |-> << >>]
    ELSE LET first == split_pdf_content(Head(pdf_contents), MaxChunkSize,
                                        ChunkOverlap)
             rest == AllChunks(Tail(pdf_contents))
         IN  [done |-> first.done /\ rest.done,
              chunks |-> first.chunks \o rest.chunks]

\* process_pdfs() on the PDFs and chunks it read from the folder: the table
\* it leaves and the collection info it prints
ProcessPdfs(tbl, pdf_contents, all_chunks, provFail, storeFail, now) ==
    LET added == AddDocuments(tbl, all_chunks, provFail, storeFail, now)
    IN  IF pdf_contents = << >>
        THEN [added |-> FALSE, tbl |-> tbl, info |-> None]
        ELSE [added |-> added.ok, tbl |-> added.tbl,
              info |-> get_collection_info(added.tbl.rows)]

----------------------------------------------------------------------------
(* Inputs *)

StoreDoc(f, h, i, n, c) ==
    [filename |-> f, file_hash |-> h, chunk_id |-> i, content |-> c,
     metadata |-> {<<"total_chunks", n>>}]

\* the chunks of version s of file f, which has n chunks
FileBatch(f, n, s) ==
    [i \in 1..n |->
        StoreDoc(f, <<"md5", f, s>>, i - 1, n,
                 Texts[((s + i - 2) % Len(Texts)) + 1])]

\* the versions of a file that get ingested
Versions == {1, 2}

Batches ==
    {FileBatch(f, n, s) : f \in Filenames, n \in 1..MaxChunks,
                          s \in Versions}

\* last: kind of call, its arguments, whether a provider or store call
\* failed inside it, and the value it returned
Chars(str) ==
    CASE str = "long"  -> <<"a", "a", "a", " ", "a", "a">>
      [] str = "short" -> <<"a", "a">>
      [] OTHER         -> << >>

\* a page as a tier sees it: reading it raises, or yields its text
PageText(text) == [raises |-> FALSE, text |-> text]
PageError == [raises |-> TRUE, text |-> << >>]

\* a file as a tier's library sees it: whether the library opens it, and
\* its pages
Tier(opens, pages) == [opens |-> opens, pages |-> pages]
Unreadable == Tier(FALSE, << >>)

\* a file on disk and what the three libraries make of it
PdfFile(name, exists, suffix, size, pypdf2, pdfplumber, ocr) ==
    [name |-> name, exists |-> exists, suffix |-> suffix, size |-> size,
     pypdf2 |-> pypdf2, pdfplumber |-> pdfplumber, ocr |-> ocr]

\* a PDF with a text layer, a scanned PDF, a PDF no library opens (its
\* size: 0 for an empty file)
TextPdf(name, text) ==
    PdfFile(name, TRUE, ".pdf", 1, Tier(TRUE, <<PageText(text)>>),
            Tier(TRUE, <<PageText(text)>>), Tier(TRUE, <<PageText(<< >>)>>))
ScannedPdf(name, text) ==
    PdfFile(name, TRUE, ".pdf", 1, Tier(TRUE, <<PageText(<< >>)>>),
            Tier(TRUE, <<PageText(<< >>)>>), Tier(TRUE, <<PageText(text)>>))
BrokenPdf(name, size) ==
    PdfFile(name, TRUE, ".pdf", size, Unreadable, Unreadable, Unreadable)

\* the PDF files a folder of process_pdfs may hold: a text PDF, a scanned
\* PDF, a scanned PDF of blank pages, an empty file
PdfFiles ==
    {TextPdf("a.pdf", Chars("long")),
     ScannedPdf("b.pdf", Chars("short")),
     ScannedPdf("e.pdf", Chars("")),
     BrokenPdf("x.pdf", 0)}

\* folders of one PDF, and of two PDFs in the order of their names
Folders ==
    {<<p>> : p \in PdfFiles}
        \cup {<<pq[1], pq[2]>> : pq \in {x \in PdfFiles \X PdfFiles :
            x[1].name = "a.pdf" /\ x[2].name = "b.pdf"}}
        \cup {<<pq[1], pq[2]>> : pq \in {x \in PdfFiles \X PdfFiles :
            x[1].name = "e.pdf" /\ x[2].name = "x.pdf"}}

\* what process_pdfs reads from a folder before it touches the store: the
\* extracted PDFs and the chunks collected from them
FolderRun(folder) ==
    LET pdf_contents == process_pdf_folder(folder)
    IN  [folder |-> folder, pdf_contents |-> pdf_contents,
         collected |-> AllChunks(pdf_contents)]

FolderRuns == {FolderRun(folder) : folder \in Folders}

\* last: the kind of the last call, its arguments, whether a provider or
\* store call failed inside it, the value it returned, the number of rows
\* before it, and whether the call before it was a successful
\* add_documents of the same documents
NoCall ==
    [kind |-> "none", arg |-> None, failed |-> FALSE, result |-> None,
     before |-> 0, repeat |-> FALSE]

\* where a call fails: nowhere, in the embedding provider, in the store
Failures == {"none", "provider", "store"}

\* the content update_document is called with
UpdateTexts == {"t3"}

\* the metadata update_document is called with: None (the default)
Metadatas == {{}}
ChunkIds == 0..(MaxChunks - 1)
OptChunkIds == {{}} \cup {{i} : i \in ChunkIds}
TopKs == {{}, {0}, {1}}

\* splitter: where the call is ("idle", "call", "while", "body", "done"),
\* its arguments, the loop variable start, the chunks collected, and the
\* window of every iteration with the chunk cut from it; after
\* MaxSplitSteps iterations the call goes on but chunks and windows record
\* no more (more is TRUE)
SplitCall(pc, text, max_chunk_size, overlap) ==
    [pc |-> pc, text |-> text, max_chunk_size |-> max_chunk_size,
     overlap |-> overlap, start |-> 0, chunks |-> << >>, windows |-> << >>,
     more |-> FALSE]

NoSplit == SplitCall("idle", << >>, 1, 0)

\* the texts the chunker is called with: words of "a" and spaces
RECURSIVE TextsOfLen(_)
TextsOfLen(n) ==
    IF n = 0 THEN {<< >>}
    ELSE {Append(t, c) : t \in TextsOfLen(n - 1), c \in {"a", " "}}

SplitTexts == UNION {TextsOfLen(n) : n \in 0..MaxTextLen}

\* extraction: where the call is ("idle", "call", "done"), which function
\* is called ("file" for extract_text_from_pdf, "folder" for
\* process_pdf_folder), its argument and what it came to
ExtractionCall(pc, kind, arg, result) ==
    [pc |-> pc, kind |-> kind, arg |-> arg, result |-> result]

NoExtraction == ExtractionCall("idle", "none", None, None)

\* page texts: a word of n letters, and n characters of which only the
\* first and the last are letters
Word(n) == [i \in 1..n |-> "a"]
Spaced(n) == [i \in 1..n |-> IF i \in {1, n} THEN "a" ELSE " "]

\* what a page yields to PyPDF2, to pdfplumber and to the OCR
NativePages ==
    {PageText(t) : t \in {<< >>, <<" ">>, Word(MinTextLength - 1),
                          Word(MinTextLength), Spaced(MinTextLength)}}
        \cup {PageError}
PlumberPages == {PageText(Word(MinTextLength - 1)), PageError}
OcrPages == {PageText(<<"b", "b">>), PageText(<< >>), PageError}

RECURSIVE PageLists(_, _)
PageLists(pages, n) ==
    IF n = 0 THEN {<< >>}
    ELSE {Append(ps, p) : ps \in PageLists(pages, n - 1), p \in pages}

\* a library fails to open the file, or reads 1..MaxPages pages
TierInputs(pages) ==
    {Unreadable} \cup
        {Tier(TRUE, ps) :
            ps \in UNION {PageLists(pages, n) : n \in 1..MaxPages}}

\* the raw texts clean_text is called with: a letter, a space, a newline
\* and a character that clean_text removes
RawChars == {"a", " ", "\n", "@"}

RECURSIVE RawTextsOfLen(_)
RawTextsOfLen(n) ==
    IF n = 0 THEN {<< >>}
    ELSE {Append(t, c) : t \in RawTextsOfLen(n - 1), c \in RawChars}

RawTexts == UNION {RawTextsOfLen(n) : n \in 0..MaxTextLen}

Suffixes == {".pdf", ".PDF", ".txt"}
FileName(suffix) ==
    CASE suffix = ".pdf" -> "f.pdf"
      [] suffix = ".PDF" -> "f.PDF"
      [] OTHER -> "f.txt"

\* the files extract_text_from_pdf is called with: every combination of
\* existence, extension and size for a PDF with a text layer, and every
\* combination of what the three libraries read for a file on disk
ExtractFiles ==
    {PdfFile(FileName(s), e, s, z,
             Tier(TRUE, <<PageText(Word(MinTextLength))>>),
             Unreadable, Unreadable) :
        e \in BOOLEAN, s \in Suffixes, z \in {0, 1}}
    \cup {PdfFile("f.pdf", TRUE, ".pdf", 1, a, b, o) :
            a \in TierInputs(NativePages), b \in TierInputs(PlumberPages),
            o \in TierInputs(OcrPages)}

\* a PDF with a text layer too short for the gate, in which the OCR
\* recognises nothing
FaintPdf(name) ==
    PdfFile(name, TRUE, ".pdf", 1,
            Tier(TRUE, <<PageText(Word(MinTextLength - 1))>>), Unreadable,
            Tier(TRUE, <<PageText(<< >>)>>))

\* the files a folder may list: those of process_pdfs, a PDF no library
\* opens, one in which the OCR finds nothing, and a link to a file that is
\* gone
FolderFiles ==
    PdfFiles \cup {BrokenPdf("o.pdf", 1), FaintPdf("n.pdf"),
                   PdfFile("g.pdf", FALSE, ".pdf", 0, Unreadable, Unreadable,
                           Unreadable)}

\* the folders process_pdf_folder is called on: up to MaxFolderLen files
RECURSIVE FolderLists(_)
FolderLists(n) ==
    IF n = 0 THEN {<< >>}
    ELSE {Append(fs, f) : fs \in FolderLists(n - 1),
                          f \in FolderFiles}

DistinctNames(folder) ==
    \A i, j \in 1..Len(folder) : folder[i].name = folder[j].name => i = j

ExtractFolders ==
    {fs \in UNION {FolderLists(n) : n \in 0..MaxFolderLen} :
        DistinctNames(fs)}

\* chunking: a call of split_pdf_content on a document whose metadata is
\* dict 1 of the heap; what it returned, the heap when it returned, and the
\* holder (0 the document, i the i-th chunk) whose metadata was changed
\* afterwards
DocumentMetadata ==
    {<<"file_hash", <<"md5", "f.pdf">>>>, <<"file_path", "f.pdf">>,
     <<"method", "standard_extraction">>}

ChunkingCall(pc, text, max_chunk_size, overlap) ==
    [pc |-> pc, text |-> text, max_chunk_size |-> max_chunk_size,
     overlap |-> overlap, heap |-> <<DocumentMetadata>>, result |-> << >>,
     returned |-> << >>, changed |-> 0]

NoChunking == ChunkingCall("idle", << >>, 1, 0)

\* the items a caller writes into a metadata dict
NewItems == {<<"file_path", "g.pdf">>, <<"page", 1>>}

\* agent: the conversation_history of the SocialPhobiaAgent, all messages
\* added since it was built or cleared, and its last call; a new agent has
\* no history
AgentCall(kind, arg, before, response) ==
    [kind |-> kind, arg |-> arg, before |-> before, response |-> response]

NoAgent ==
    [conversation_history |-> << >>, added |-> << >>,
     call |-> AgentCall("none", None, << >>, << >>)]

\* what the agent is called with: the outcome of the search and of the
\* completion call of a question
Roles == {"user", "assistant"}
Questions == {<<"q">>}
Retrievals == {"ok", "error"}
Completions ==
    {[raises |-> TRUE, content |-> {}], [raises |-> FALSE, content |-> {}],
     [raises |-> FALSE, content |-> {<<" ", "r">>}]}

\* adds: the two calls of add_documents, the table they started from and the
\* log of the upsert statements executed so far.  A call is at "embed" (before
\* generate_embeddings), at "run" (inside its transaction) or "done"; it has
\* its documents and their embeddings, the number i of its next statement,
\* the row versions it wrote and has not committed, the timestamp of its
\* transaction and the value it returned
Adders == {1, 2}

Adder(pc, documents) ==
    [pc |-> pc, documents |-> documents, embeddings |-> << >>, i |-> 1,
     writes |-> {}, now |-> 0, result |-> FALSE]

NoAdds ==
    [call |-> [t \in Adders |-> Adder("idle", << >>)],
     initial |-> [rows |-> {}, nextId |-> 1], log |-> << >>]

\* the table when the two calls start: empty, or holding the first version
\* of one file
InitialTables ==
    {[rows |-> {}, nextId |-> 1]}
        \cup {AddDocuments([rows |-> {}, nextId |-> 1],
                           FileBatch(f, MaxChunks, 1), 0, 0, 1).tbl :
                f \in Filenames}

----------------------------------------------------------------------------
(* Actions *)

Call(kind, arg, failed, result) ==
    [kind |-> kind, arg |-> arg, failed |-> failed, result |-> result,
     before |-> Cardinality(rows),
     repeat |-> (kind = "add" /\ last.kind = "add" /\ last.result
                    /\ last.arg = arg)]

Init ==
    /\ rows = {}
    /\ nextId = 1
    /\ clock = 0
    /\ last = NoCall
    /\ splitter = NoSplit
    /\ extraction = NoExtraction
    /\ adds = NoAdds
    /\ chunking = NoChunking
    /\ agent = NoAgent

add_documents ==
    \E documents \in Batches :
    \E provFail \in 0..Len(documents) :
    \E storeFail \in IF provFail = 0 THEN 0..(Len(documents) + 1) ELSE {0} :
        LET res == AddDocuments([rows |-> rows, nextId |-> nextId],
                                documents, provFail, storeFail, clock + 1)
        IN  /\ clock < MaxClock
            /\ res.tbl.nextId <= MaxId + 1
            /\ rows' = res.tbl.rows
            /\ nextId' = res.tbl.nextId
            /\ clock' = IF res.ok THEN clock + 1 ELSE clock
            /\ last' = Call("add", documents,
                            provFail # 0 \/ storeFail # 0, res.ok)
            /\ UNCHANGED elsewhere

update_document ==
    \E filename \in Filenames, chunk_id \in ChunkIds :
    \E content \in UpdateTexts, metadata \in Metadatas, fail \in Failures :
        LET res == UpdateDocument(rows, filename, chunk_id, content,
                                  metadata,
                                  IF fail = "provider" THEN 1 ELSE 0,
                                  fail = "store", clock + 1)
        IN  /\ clock < MaxClock
            /\ rows' = res.rows
            /\ clock' = IF res.ok THEN clock + 1 ELSE clock
            /\ last' = Call("update",
                            [filename |-> filename, chunk_id |-> chunk_id,
                             content |-> content, metadata |-> metadata],
                            fail # "none", res.ok)
            /\ UNCHANGED <<nextId, elsewhere>>

delete_document ==
    \E filename \in Filenames, chunk_id \in OptChunkIds :
    \E storeFail \in BOOLEAN :
        LET res == DeleteDocument(rows, filename, chunk_id, storeFail)
        IN  /\ rows' = res.rows
            /\ last' = Call("delete",
                            [filename |-> filename, chunk_id |-> chunk_id],
                            storeFail, res.ok)
            /\ UNCHANGED <<nextId, clock, elsewhere>>

clear_collection ==
    \E storeFail \in BOOLEAN :
        LET res == ClearCollection(rows, storeFail)
        IN  /\ rows' = res.rows
            /\ last' = Call("clear", None, storeFail, res.ok)
            /\ UNCHANGED <<nextId, clock, elsewhere>>

search_similar ==
    \E query \in Queries, top_k \in TopKs :
    \E fail \in Failures :
    \E results \in SearchSimilar(rows, query, top_k,
                                 IF fail = "provider" THEN 1 ELSE 0,
                                 fail = "store") :
        /\ last' = Call("search", [query |-> query, top_k |-> top_k],
                        fail # "none", results)
        /\ UNCHANGED <<rows, nextId, clock, elsewhere>>

process_pdfs ==
    \E run \in FolderRuns, fail \in Failures :
    \E provFail \in IF fail = "provider"
                    THEN 1..Len(run.collected.chunks)
                    ELSE {0} :
    \E res \in {ProcessPdfs([rows |-> rows, nextId |-> nextId],
                            run.pdf_contents, run.collected.chunks,
                            provFail, IF fail = "store" THEN 1 ELSE 0,
                            clock + 1)} :
        /\ clock < MaxClock
        /\ run.collected.done
        /\ res.tbl.nextId <= MaxId + 1
        /\ rows' = res.tbl.rows
        /\ nextId' = res.tbl.nextId
        /\ clock' = IF res.added THEN clock + 1 ELSE clock
        /\ last' = Call("process_pdfs",
                        [folder |-> run.folder, provFail |-> provFail],
                        fail # "none", res.info)
        /\ UNCHANGED elsewhere

Next ==
    \/ process_pdfs
    \/ add_documents
    \/ update_document
    \/ delete_document
    \/ clear_collection
    \/ search_similar

Spec == Init /\ [][Next]_vars

----------------------------------------------------------------------------
(* split_text_into_chunks, one loop iteration at a time *)

InitSplit ==
    /\ rows = {}
    /\ nextId = 1
    /\ clock = 0
    /\ last = NoCall
    /\ extraction = NoExtraction
    /\ adds = NoAdds
    /\ chunking = NoChunking
    /\ agent = NoAgent
    /\ \E text \in SplitTexts :
       \E max_chunk_size \in 1..MaxWindowSize, overlap \in 0..MaxOverlap :
           splitter = SplitCall("call", text, max_chunk_size, overlap)

\* lines 68-72: a short text is returned whole, a longer one enters the loop
SplitEnter ==
    /\ splitter.pc = "call"
    /\ splitter' =
           IF FitsInOneChunk(splitter.text, splitter.max_chunk_size)
           THEN [splitter EXCEPT !.pc = "done", !.chunks = <<splitter.text>>]
           ELSE [splitter EXCEPT !.pc = "while"]
    /\ UNCHANGED <<storeVars, extraction, adds, chunking, agent>>

\* line 74: the test of the while loop
SplitWhile ==
    /\ splitter.pc = "while"
    /\ splitter' = [splitter EXCEPT
                      !.pc = IF splitter.start < Len(splitter.text)
                             THEN "body" ELSE "done"]
    /\ UNCHANGED <<storeVars, extraction, adds, chunking, agent>>

\* lines 75-91: the body of the while loop
SplitIterate ==
    /\ splitter.pc = "body"
    /\ LET text == splitter.text
           end == WindowEnd(text, splitter.max_chunk_size, splitter.start)
           chunk == strip(Slice(text, splitter.start, end))
           start == NextStart(end, splitter.overlap)
           full == Len(splitter.windows) >= MaxSplitSteps
       IN  splitter' = [splitter EXCEPT
                       !.start = start,
                       !.chunks = IF full THEN @ ELSE AppendChunk(@, chunk),
                       !.windows = IF full THEN @
                                   ELSE Append(@, [start |-> splitter.start,
                                                   end |-> end,
                                                   chunk |-> chunk]),
                       !.more = full,
                       !.pc = IF start >= Len(text) THEN "done" ELSE "while"]
    /\ UNCHANGED <<storeVars, extraction, adds, chunking, agent>>

NextSplit ==
    \/ SplitEnter
    \/ SplitWhile
    \/ SplitIterate

SpecSplit == InitSplit /\ [][NextSplit]_vars

\* a running call always executes its next statement
SpecSplitFair == SpecSplit /\ WF_vars(NextSplit)

----------------------------------------------------------------------------
(* extract_text_from_pdf and process_pdf_folder, one call at a time *)

InitExtract ==
    /\ rows = {}
    /\ nextId = 1
    /\ clock = 0
    /\ last = NoCall
    /\ splitter = NoSplit
    /\ adds = NoAdds
    /\ chunking = NoChunking
    /\ agent = NoAgent
    /\ \/ \E file \in ExtractFiles :
              extraction = ExtractionCall("call", "file", file, None)
       \/ \E folder \in ExtractFolders :
              extraction = ExtractionCall("call", "folder", folder, None)
       \/ \E text \in RawTexts :
              extraction = ExtractionCall("call", "clean", text, None)

ExtractFile ==
    /\ extraction.pc = "call"
    /\ extraction.kind = "file"
    /\ extraction' = [extraction EXCEPT
                        !.pc = "done",
                        !.result = extract_text_from_pdf(extraction.arg)]
    /\ UNCHANGED <<storeVars, splitter, adds, chunking, agent>>

ProcessFolder ==
    /\ extraction.pc = "call"
    /\ extraction.kind = "folder"
    /\ extraction' = [extraction EXCEPT
                        !.pc = "done",
                        !.result = process_pdf_folder(extraction.arg)]
    /\ UNCHANGED <<storeVars, splitter, adds, chunking, agent>>

CleanText ==
    /\ extraction.pc = "call"
    /\ extraction.kind = "clean"
    /\ extraction' = [extraction EXCEPT
                        !.pc = "done",
                        !.result = clean_text(extraction.arg)]
    /\ UNCHANGED <<storeVars, splitter, adds, chunking, agent>>

NextExtract ==
    \/ ExtractFile
    \/ ProcessFolder
    \/ CleanText

SpecExtract == InitExtract /\ [][NextExtract]_vars

----------------------------------------------------------------------------
(* split_pdf_content, and a caller that changes a metadata dict afterwards *)

InitChunking ==
    /\ rows = {}
    /\ nextId = 1
    /\ clock = 0
    /\ last = NoCall
    /\ splitter = NoSplit
    /\ extraction = NoExtraction
    /\ adds = NoAdds
    /\ agent = NoAgent
    /\ \E text \in SplitTexts :
       \E max_chunk_size \in 1..MaxWindowSize, overlap \in 0..MaxOverlap :
           chunking = ChunkingCall("call", text, max_chunk_size, overlap)

\* the dict object that holder h has as its metadata
MetadataOf(h) == IF h = 0 THEN 1 ELSE chunking.result[h].metadata

\* split_pdf_content returns (when split_text_into_chunks does)
SplitPdfContent ==
    \E split \in {split_text_into_chunks(chunking.text,
                                         chunking.max_chunk_size,
                                         chunking.overlap)} :
        LET pdf_content == [text |-> chunking.text,
                            metadata |-> chunking.heap[1]]
            built == ChunkData(chunking.heap, pdf_content, 1, split.chunks,
                               1, << >>)
        IN  /\ chunking.pc = "call"
            /\ split.done
            /\ chunking' = [chunking EXCEPT !.pc = "returned",
                                            !.heap = built.heap,
                                            !.result = built.result,
                                            !.returned = built.heap]
            /\ UNCHANGED <<storeVars, splitter, extraction, adds, agent>>

\* the caller sets an item of the metadata of the document or of a chunk
ChangeMetadata ==
    \E h \in 0..Len(chunking.result), item \in NewItems :
        /\ chunking.pc = "returned"
        /\ chunking' = [chunking EXCEPT
               !.pc = "changed",
               !.changed = h,
               !.heap[MetadataOf(h)] = SetItem(@, item[1], item[2])]
        /\ UNCHANGED <<storeVars, splitter, extraction, adds, agent>>

NextChunking ==
    \/ SplitPdfContent
    \/ ChangeMetadata

SpecChunking == InitChunking /\ [][NextChunking]_vars

----------------------------------------------------------------------------
(* The agent: any sequence of calls that touch its history *)

InitAgent ==
    /\ rows = {}
    /\ nextId = 1
    /\ clock = 0
    /\ last = NoCall
    /\ splitter = NoSplit
    /\ extraction = NoExtraction
    /\ adds = NoAdds
    /\ chunking = NoChunking
    /\ agent = NoAgent

AddToHistory ==
    \E role \in Roles, content \in {<<"m">>} :
        /\ Len(agent.added) < MaxAdded
        /\ agent' = [conversation_history |->
                         add_to_history(agent.conversation_history, role,
                                        content),
                     added |-> Append(agent.added, Message(role, content)),
                     call |-> AgentCall("add", Message(role, content),
                                        agent.conversation_history, << >>)]
        /\ UNCHANGED <<storeVars, splitter, extraction, adds, chunking>>

GenerateResponse ==
    \E user_question \in Questions, retrieval \in Retrievals :
    \E completion \in Completions :
        LET res == generate_response(agent.conversation_history,
                                     user_question, retrieval, completion)
            n == Len(agent.conversation_history)
        IN  /\ Len(agent.added) + 2 <= MaxAdded
            /\ agent' = [conversation_history |-> res.history,
                         added |-> IF CompletionRaises(completion)
                                   THEN agent.added
                                   ELSE agent.added \o
                                        <<Message("user", user_question),
                                          Message("assistant", res.response)>>,
                         call |-> AgentCall("generate",
                                            [user_question |-> user_question,
                                             retrieval |-> retrieval,
                                             completion |-> completion],
                                            agent.conversation_history,
                                            res.response)]
            /\ UNCHANGED <<storeVars, splitter, extraction, adds, chunking>>

ClearConversationHistory ==
    /\ agent' = [conversation_history |-> << >>, added |-> << >>,
                 call |-> AgentCall("clear", None,
                                    agent.conversation_history, << >>)]
    /\ UNCHANGED <<storeVars, splitter, extraction, adds, chunking>>

NextAgent ==
    \/ AddToHistory
    \/ GenerateResponse
    \/ ClearConversationHistory

SpecAgent == InitAgent /\ [][NextAgent]_vars

----------------------------------------------------------------------------
(* Two calls of add_documents at the same time, one statement a step *)

\* faulty variant: a row version replaces the committed row with its chunk
\* number, whatever the file
View_by_chunk_id(rs, writes) ==
    {r \in rs : \A w \in writes : r.chunk_id # w.chunk_id} \cup writes

\* the table as a transaction sees it: the committed rows, with the row
\* versions it wrote itself in place of the committed ones
View(rs, writes) ==
    {r \in rs : \A w \in writes : ~SameKey(r, w.filename, w.chunk_id)}
        \cup writes

\* faulty variant: a statement never waits for another transaction
Blocked_no_row_lock(calls, t, doc) == FALSE

\* the INSERT ... ON CONFLICT of call t for doc waits while the transaction
\* of another call holds an uncommitted version of the row with doc's key
Blocked(calls, t, doc) ==
    \E u \in Adders \ {t} :
        /\ calls[u].pc = "run"
        /\ \E w \in calls[u].writes : SameKey(w, doc.filename, doc.chunk_id)

InitAdds ==
    /\ last = NoCall
    /\ splitter = NoSplit
    /\ extraction = NoExtraction
    /\ chunking = NoChunking
    /\ agent = NoAgent
    /\ \E tbl \in InitialTables, first \in Batches, second \in Batches :
           /\ rows = tbl.rows
           /\ nextId = tbl.nextId
           /\ clock = IF tbl.rows = {} THEN 0 ELSE 1
           /\ adds = [call |-> <<Adder("embed", first),
                                 Adder("embed", second)>>,
                      initial |-> tbl, log |-> << >>]

\* lines 117-120: the embeddings of all documents, then the connection
AddEmbed(t) ==
    \E provFail \in 0..1 :
        LET call == adds.call[t]
            texts == [i \in 1..Len(call.documents) |->
                        call.documents[i].content]
            gen == generate_embeddings(texts, provFail)
        IN  /\ call.pc = "embed"
            /\ adds' = [adds EXCEPT !.call[t] =
                   IF gen.raised
                   THEN [call EXCEPT !.pc = "done"]
                   ELSE [call EXCEPT !.pc = "run",
                                     !.embeddings = gen.embeddings,
                                     !.now = clock + 1]]
            /\ clock' = IF gen.raised THEN clock ELSE clock + 1
            /\ UNCHANGED <<rows, nextId, last, splitter, extraction,
                           chunking, agent>>

\* lines 122-140: the next cursor.execute of the loop
AddExecute(t) ==
    LET call == adds.call[t]
        doc == WithMetadata(call.documents[call.i])
        res == Upsert([rows |-> View(rows, call.writes), nextId |-> nextId],
                      doc, call.embeddings[call.i], call.now)
        row == CHOOSE r \in res.rows : SameKey(r, doc.filename, doc.chunk_id)
    IN  /\ call.pc = "run"
        /\ call.i <= Len(call.documents)
        /\ ~Blocked(adds.call, t, doc)
        /\ adds' = [adds EXCEPT
               !.call[t] = [call EXCEPT
                   !.i = call.i + 1,
                   !.writes = {w \in call.writes :
                                  ~SameKey(w, doc.filename, doc.chunk_id)}
                              \cup {row}],
               !.log = Append(@, [t |-> t, filename |-> doc.filename,
                                  chunk_id |-> doc.chunk_id])]
        /\ nextId' = res.nextId
        /\ UNCHANGED <<rows, clock, last, splitter, extraction,
                       chunking, agent>>

\* line 142: conn.commit() makes the row versions of the call the committed
\* ones
AddCommit(t) ==
    LET call == adds.call[t]
    IN  /\ call.pc = "run"
        /\ call.i > Len(call.documents)
        /\ rows' = View(rows, call.writes)
        /\ adds' = [adds EXCEPT !.call[t] = [call EXCEPT !.pc = "done",
                                                        !.writes = {},
                                                        !.result = TRUE]]
        /\ UNCHANGED <<nextId, clock, last, splitter, extraction,
                       chunking, agent>>

\* lines 147-149: a statement or the commit raises, the transaction is
\* rolled back and the call returns False
AddRaise(t) ==
    LET call == adds.call[t]
    IN  /\ call.pc = "run"
        /\ adds' = [adds EXCEPT !.call[t] = [call EXCEPT !.pc = "done",
                                                        !.writes = {}]]
        /\ UNCHANGED <<rows, nextId, clock, last, splitter, extraction,
                       chunking, agent>>

NextAdds ==
    \/ \E t \in Adders : AddEmbed(t)
    \/ \E t \in Adders : AddExecute(t)
    \/ \E t \in Adders : AddCommit(t)
    \/ \E t \in Adders : AddRaise(t)

SpecAdds == InitAdds /\ [][NextAdds]_vars

----------------------------------------------------------------------------
(* Claims *)

\* what get_collection_info reports in the current state
Info == get_collection_info(rows)

\* the PDFs of a folder that are valid and have non-blank extracted text
Ingestible(folder) ==
    {folder[i] : i \in {j \in 1..Len(folder) :
        /\ validate_pdf_file(folder[j])
        /\ extract_text_from_pdf(folder[j]).raised = "none"
        /\ strip(extract_text_from_pdf(folder[j]).text) # << >>}}

\* C1: after process_pdfs ran on a folder with the provider and the store
\* both succeeding, every valid PDF of the folder with non-empty extracted
\* text is listed by get_collection_info and total_documents is at least 1.
C1_FolderIngestionStores ==
    (last.kind = "process_pdfs" /\ ~last.failed)
        => \A pdf \in Ingestible(last.arg.folder) :
              /\ pdf.name \in last.result.files
              /\ last.result.total_documents >= 1

UniqueKey(rs) ==
    \A r1 \in rs : \A r2 \in rs :
        SameKey(r1, r2.filename, r2.chunk_id) => r1 = r2

\* a successful add of documents overwrote the rows whose keys existed and
\* added one row for every other document
AddOverwrites(before, after, documents, now) ==
    /\ \A i \in 1..Len(documents) :
          \A r \in before :
              SameKey(r, documents[i].filename, documents[i].chunk_id)
                  => [r EXCEPT !.content = documents[i].content,
                               !.embedding = EmbeddingOf(documents[i].content),
                               !.metadata = documents[i].metadata,
                               !.created_at = now] \in after
    /\ Cardinality(after) = Cardinality(before)
          + Cardinality({i \in 1..Len(documents) :
                ~\E r \in before : SameKey(r, documents[i].filename,
                                           documents[i].chunk_id)})

\* C2: the store never holds two rows with the same (filename, chunk_id),
\* and an add whose key exists overwrites content, embedding, metadata and
\* created_at of that row instead of adding a second row.
C2_UniqueKeyUpsert ==
    [][/\ UniqueKey(rows')
       /\ (last'.kind = "add" /\ last'.result)
             => AddOverwrites(rows, rows', last'.arg, clock')]_vars

\* the last call was an add that overwrote a row an earlier call inserted
C2_Witness ==
    /\ last.kind = "add" /\ last.result
    /\ \E i \in 1..Len(last.arg) : \E r \in rows :
          /\ SameKey(r, last.arg[i].filename, last.arg[i].chunk_id)
          /\ r.created_at = clock
          /\ r.content = last.arg[i].content
          /\ r.file_hash # last.arg[i].file_hash

\* C3: adding the chunks of a file a second time, right after they were
\* added, leaves total chunk count, document count and filename list as
\* they were after the first add.
C3_AddIdempotent ==
    [][(last'.kind = "add" /\ last'.repeat)
          => get_collection_info(rows') = get_collection_info(rows)]_vars

\* the same documents were added twice in a row, both times successfully
C3_Witness ==
    /\ last.kind = "add" /\ last.repeat /\ last.result
    /\ Info.total_documents = Len(last.arg)

TotalChunksOf(r) == {kv[2] : kv \in {m \in r.metadata : m[1] = "total_chunks"}}

\* C4: the chunk ids stored for a filename are 0..N-1 and N is the
\* total_chunks recorded in the metadata of those rows.
C4_ContiguousChunkIds ==
    \A f \in Filenames :
        LET of_f == {r \in rows : r.filename = f}
            N == Cardinality(of_f)
        IN  /\ {r.chunk_id : r \in of_f} = 0..(N - 1)
            /\ \A r \in of_f : TotalChunksOf(r) = {N}

\* the row a search result was built from
RowOf(res) == CHOOSE r \in rows : r.id = res.id

QueryEmbedding == EmbeddingOf(last.arg.query)

\* C5: search_similar returns no row whose similarity to the query is less
\* than or equal to the threshold; a row exactly at the threshold is left
\* out.
C5_AboveThreshold ==
    last.kind = "search"
        => \A i \in 1..Len(last.result) :
              /\ \E r \in rows : r.id = last.result[i].id
              /\ last.result[i].similarity
                    = 100 - CosineDistance(RowOf(last.result[i]).embedding,
                                           QueryEmbedding)
              /\ last.result[i].similarity > SIMILARITY_THRESHOLD

\* a search returned rows while a stored row sat exactly at the threshold
C5_Witness ==
    /\ last.kind = "search" /\ ~last.failed
    /\ last.result # << >>
    /\ \E r \in rows :
          100 - CosineDistance(r.embedding, QueryEmbedding)
              = SIMILARITY_THRESHOLD

\* the top_k of the last search as the caller means it
RequestedTopK ==
    IF last.arg.top_k = {}
    THEN TOP_K_RESULTS
    ELSE CHOOSE k \in last.arg.top_k : TRUE

\* C6: search_similar returns at most top_k rows for every top_k the
\* caller passes, and at most the default 5 when top_k is omitted.
C6_AtMostTopK ==
    last.kind = "search" => Len(last.result) <= RequestedTopK

C8_SearchReportsFailure ==
    last.kind = "search"
        => /\ (~last.failed
                  /\ \A r \in rows :
                        100 - CosineDistance(r.embedding, QueryEmbedding)
                            <= SIMILARITY_THRESHOLD)
                 => last.result = << >>
           /\ last.failed => last.result # << >>

\* C9: an add_documents call in which a provider call or a store call
\* failed returns failure and leaves the stored rows exactly as they were.
C9_AddAllOrNothing ==
    [][(last'.kind = "add" /\ last'.failed)
          => (~last'.result /\ rows' = rows)]_vars

\* an add of two chunks failed in the store after its first upsert had run
\* on a table that already held rows
C9_Witness ==
    /\ last.kind = "add" /\ last.failed /\ ~last.result
    /\ Len(last.arg) >= 2
    /\ last.before >= 1
    /\ rows # {}

\* C10: a successful delete_document(filename) removes all rows of the
\* filename and only those (the filename is no longer listed, the total
\* drops by the number of rows it had, the other rows are unchanged);
\* delete_document(filename, chunk_id) removes exactly the row of that key.
C10_DeleteFrame ==
    [][(last'.kind = "delete" /\ last'.result)
          => LET f == last'.arg.filename
                 c == last'.arg.chunk_id
                 had == {r \in rows : r.filename = f}
             IN  IF c = {}
                 THEN /\ f \notin get_collection_info(rows').files
                      /\ get_collection_info(rows').total_documents
                            = get_collection_info(rows).total_documents
                                - Cardinality(had)
                      /\ rows' = rows \ had
                 ELSE rows' = rows \ {r \in had : r.chunk_id \in c}]_vars

\* a delete by filename removed rows and left the rows of another file
C10_Witness ==
    /\ last.kind = "delete" /\ last.result
    /\ last.arg.chunk_id = {}
    /\ last.before > Cardinality(rows)
    /\ rows # {}

\* C25: update_document overwrites content, embedding, metadata and
\* created_at of the one row with the key and changes no other row and not
\* the number of rows; when no row has the key the table is left as it was
\* and the call does not return True.
C25_UpdateFrame ==
    [][last'.kind = "update"
          => LET f == last'.arg.filename
                 c == last'.arg.chunk_id
                 hit == {r \in rows : SameKey(r, f, c)}
             IN  /\ Cardinality(rows') = Cardinality(rows)
                 /\ rows \ hit \subseteq rows'
                 /\ (last'.result /\ hit # {}) =>
                        \E r \in rows' :
                            /\ SameKey(r, f, c)
                            /\ r.content = last'.arg.content
                            /\ r.embedding = EmbeddingOf(last'.arg.content)
                            /\ r.metadata = {}
                            /\ r.created_at = clock'
                 /\ hit = {} => (rows' = rows /\ ~last'.result)]_vars

\* the chunks process_pdfs collected in its last run, and the document
\* whose chunk the failing provider call was to embed
CollectedChunks == AllChunks(process_pdf_folder(last.arg.folder)).chunks
FailedDocument == CollectedChunks[last.arg.provFail].file_path

\* C18: when a provider call fails on a chunk of one document during
\* process_pdfs, the chunks of every other ingestible document of the
\* folder are stored.
C18_ProviderFailureLocal ==
    (last.kind = "process_pdfs" /\ last.arg.provFail > 0)
        => \A pdf \in Ingestible(last.arg.folder) :
               pdf.name # FailedDocument => pdf.name \in Info.files

----------------------------------------------------------------------------
(* Claims about split_text_into_chunks *)

\* the call returned and every iteration of its loop is recorded
Returned == splitter.pc = "done" /\ ~splitter.more

HasChunk(w) == w.chunk # << >>

\* the windows that yielded a chunk, in the order of the chunks
EmittedWindows == SelectSeq(splitter.windows, HasChunk)

\* the offsets of the text a window reads
Positions(w) ==
    {p \in 0..(Len(splitter.text) - 1) :
        /\ SliceIndex(w.start, Len(splitter.text)) <= p
        /\ p < SliceIndex(w.end, Len(splitter.text))}

\* C11: a text no longer than max_chunk_size (the empty text and a text of
\* exactly max_chunk_size characters included) is returned, for every
\* overlap, as exactly one chunk equal to the text unchanged.
C11_ShortTextOneChunk ==
    (splitter.pc = "done" /\ Len(splitter.text) <= splitter.max_chunk_size)
        => splitter.chunks = <<splitter.text>>

\* a text of exactly max_chunk_size characters that starts with a space,
\* split with an overlap that is not smaller than max_chunk_size
C11_Witness ==
    /\ splitter.pc = "done"
    /\ Len(splitter.text) = splitter.max_chunk_size
    /\ splitter.text[1] = " "
    /\ splitter.overlap >= splitter.max_chunk_size
    /\ splitter.chunks = <<splitter.text>>

\* C12: with max_chunk_size > overlap >= 0 every call of
\* split_text_into_chunks terminates: it eventually returns.
C12_Terminates ==
    (splitter.pc = "call" /\ splitter.max_chunk_size > splitter.overlap)
        ~> (splitter.pc = "done")

\* C13 as stated: in a text split into more than one chunk, the character
\* right after the end of every chunk but the last is whitespace.
C13_ChunksEndAtWhitespace ==
    Returned =>
        \A i \in 1..(Len(EmittedWindows) - 1) :
            /\ EmittedWindows[i].end \in 0..(Len(splitter.text) - 1)
            /\ splitter.text[EmittedWindows[i].end + 1] \in Whitespace

\* the window that starts at start would end before the text does and
\* holds a space after its first character
HoldsSpace(start) ==
    /\ start + splitter.max_chunk_size < Len(splitter.text)
    /\ rfind(splitter.text, " ", start, start + splitter.max_chunk_size)
           > start

\* C13 amended: every chunk but the last whose window holds a space after
\* its first character ends at a space: the character right after the end
\* of the chunk's window is a space.
C13_RetractedChunksEndAtSpace ==
    Returned =>
        \A i \in 1..(Len(EmittedWindows) - 1) :
            HoldsSpace(EmittedWindows[i].start) =>
                /\ EmittedWindows[i].end \in 0..(Len(splitter.text) - 1)
                /\ splitter.text[EmittedWindows[i].end + 1] = " "

\* a returned call of three chunks or more whose first window was moved
\* back to a space
C13_Witness ==
    /\ Returned
    /\ Len(EmittedWindows) >= 3
    /\ HoldsSpace(EmittedWindows[1].start)
    /\ EmittedWindows[1].end
           < EmittedWindows[1].start + splitter.max_chunk_size

\* C14: every window after the first starts exactly overlap characters
\* before the end of the window before it, so no gap is left between the
\* end of one window and the start of the next, and consecutive chunks
\* share at most overlap characters of the text.
C14_WindowsOverlap ==
    /\ \A i \in 1..(Len(splitter.windows) - 1) :
           /\ splitter.windows[i + 1].start
                  = splitter.windows[i].end - splitter.overlap
           /\ splitter.windows[i + 1].start <= splitter.windows[i].end
    /\ \A i \in 1..(Len(EmittedWindows) - 1) :
           Cardinality(Positions(EmittedWindows[i])
                           \cap Positions(EmittedWindows[i + 1]))
               <= splitter.overlap

\* a returned call of more than one chunk whose first two chunks share
\* exactly overlap characters, with an overlap above 0
C14_Witness ==
    /\ Returned
    /\ Len(splitter.chunks) > 1
    /\ splitter.overlap > 0
    /\ Cardinality(Positions(EmittedWindows[1])
                       \cap Positions(EmittedWindows[2]))
           = splitter.overlap

\* the call took the loop, with an overlap smaller than the window
MultiChunkPath ==
    /\ splitter.pc \in {"while", "body", "done"}
    /\ Len(splitter.text) > splitter.max_chunk_size
    /\ splitter.max_chunk_size > splitter.overlap

\* C26: on the multi-chunk path, with max_chunk_size > overlap >= 0, every
\* chunk split_text_into_chunks collects is non-empty, has no whitespace at
\* its start or end, and is at most max_chunk_size characters long.
C26_ChunksTrimmedAndBounded ==
    MultiChunkPath =>
        \A i \in 1..Len(splitter.chunks) :
            /\ splitter.chunks[i] # << >>
            /\ strip(splitter.chunks[i]) = splitter.chunks[i]
            /\ Len(splitter.chunks[i]) <= splitter.max_chunk_size

\* a returned call on the multi-chunk path whose loop dropped a window of
\* whitespace and collected a chunk of exactly max_chunk_size characters
C26_Witness ==
    /\ MultiChunkPath
    /\ Returned
    /\ \E i \in 1..Len(splitter.windows) : ~HasChunk(splitter.windows[i])
    /\ \E i \in 1..Len(splitter.chunks) :
           Len(splitter.chunks[i]) = splitter.max_chunk_size

\* C28: for a text longer than max_chunk_size (and an overlap below
\* max_chunk_size) the window start offsets are non-negative and strictly
\* increasing, and when the call has returned every character of the text
\* that is not whitespace lies in the window of a chunk it returned.
C28_NoTextLost ==
    MultiChunkPath =>
        /\ \A i \in 1..Len(splitter.windows) :
               splitter.windows[i].start >= 0
        /\ \A i, j \in 1..Len(splitter.windows) :
               i < j => splitter.windows[i].start < splitter.windows[j].start
        /\ Returned =>
               \A p \in 0..(Len(splitter.text) - 1) :
                   splitter.text[p + 1] \notin Whitespace =>
                       \E i \in 1..Len(EmittedWindows) :
                           p \in Positions(EmittedWindows[i])

----------------------------------------------------------------------------
(* Claims about text extraction *)

\* a call of extract_text_from_pdf on a valid file came to its end
ExtractedValid ==
    /\ extraction.pc = "done"
    /\ extraction.kind = "file"
    /\ extraction.result.raised # "ValueError"

\* the text the native tiers returned for the file of the call
NativeText == try_text_extraction(extraction.arg).text

NonWhitespace(text) ==
    Cardinality({i \in 1..Len(text) : text[i] \notin Whitespace})

OcrInvoked == \E i \in 1..Len(extraction.result.tiers) :
                  extraction.result.tiers[i] = "ocr"

ProcessingMethod ==
    MetadataGet(extraction.result.metadata, "processing_method")

\* C15: whenever the native tiers together return fewer than the minimum
\* number of non-whitespace characters, extract_text_from_pdf invokes OCR,
\* also when the native text has the minimum number of characters in all.
C15_OcrBelowMinimumNonWhitespace ==
    (ExtractedValid /\ NonWhitespace(NativeText) < MinTextLength)
        => OcrInvoked

\* C16: a file whose native text (from its first to its last character
\* that is not whitespace) is shorter than the minimum triggers OCR and is
\* returned with processing_method 'ocr'; a file whose native text has the
\* minimum length or more never invokes OCR and never has that method;
\* processing_method is 'ocr' exactly when OCR was invoked.
C16_OcrIffShortNativeText ==
    ExtractedValid =>
        /\ Len(strip(NativeText)) < MinTextLength => OcrInvoked
        /\ Len(strip(NativeText)) >= MinTextLength => ~OcrInvoked
        /\ extraction.result.raised = "none"
               => (ProcessingMethod = "ocr" <=> OcrInvoked)

\* a returned call whose native text is one character short of the
\* minimum and came from pdfplumber: OCR ran and the method is 'ocr'
C16_Witness ==
    /\ ExtractedValid
    /\ extraction.result.raised = "none"
    /\ Len(strip(NativeText)) = MinTextLength - 1
    /\ try_text_extraction(extraction.arg).method = "pdfplumber"
    /\ OcrInvoked
    /\ ProcessingMethod = "ocr"

\* C17: extract_text_from_pdf raises the invalid-input error exactly when
\* the file does not exist, its extension is not .pdf in any letter case,
\* or its size is zero, and then no tier was tried.
C17_InvalidInputIff ==
    (extraction.pc = "done" /\ extraction.kind = "file") =>
        /\ extraction.result.raised = "ValueError"
               <=> \/ ~extraction.arg.exists
                   \/ extraction.arg.suffix \notin {".pdf", ".PDF"}
                   \/ extraction.arg.size = 0
        /\ extraction.result.raised = "ValueError"
               => extraction.result.tiers = << >>

\* a file named .PDF that exists and is not empty went through the tiers
C17_Witness ==
    /\ extraction.pc = "done"
    /\ extraction.kind = "file"
    /\ extraction.arg.suffix = ".PDF"
    /\ extraction.result.raised = "none"
    /\ extraction.result.tiers # << >>

\* the extraction of a file succeeded with text that is not empty
ExtractsText(file) ==
    /\ extract_text_from_pdf(file).raised = "none"
    /\ extract_text_from_pdf(file).text # << >>

\* C19: process_pdf_folder returns exactly the PDFs of the folder whose
\* extraction succeeded with non-empty text, in folder order, each with
\* its extracted text: a PDF whose extraction fails stops no later PDF.
C19_FolderSkipsFailures ==
    (extraction.pc = "done" /\ extraction.kind = "folder") =>
        LET kept == SelectSeq(extraction.arg, ExtractsText)
        IN  /\ Len(extraction.result) = Len(kept)
            /\ \A i \in 1..Len(kept) :
                   /\ extraction.result[i].file_path = kept[i].name
                   /\ extraction.result[i].text
                          = extract_text_from_pdf(kept[i]).text

\* a folder whose first PDF fails in OCR and whose second PDF is returned
C19_Witness ==
    /\ extraction.pc = "done"
    /\ extraction.kind = "folder"
    /\ Len(extraction.arg) = 2
    /\ extract_text_from_pdf(extraction.arg[1]).raised = "Exception"
    /\ Len(extraction.result) = 1
    /\ extraction.result[1].file_path = extraction.arg[2].name

\* the pages of the tier whose text the call returned
ReturnedTierPages ==
    CASE ProcessingMethod = "ocr" -> extraction.arg.ocr.pages
      [] ProcessingMethod = "pdfplumber" -> extraction.arg.pdfplumber.pages
      [] OTHER -> extraction.arg.pypdf2.pages

\* the texts of the pages that were read without an error, in page order,
\* one line a page
RECURSIVE Lines(_)
Lines(pages) ==
    IF pages = << >>
    THEN << >>
    ELSE IF Head(pages).raises \/ Head(pages).text = << >>
    THEN Lines(Tail(pages))
    ELSE Head(pages).text \o <<"\n">> \o Lines(Tail(pages))

\* C27: a page that fails in PyPDF2, pdfplumber or the OCR does not abort
\* the document: extract_text_from_pdf raises only when the OCR cannot open
\* the file, and the text it returns is the cleaned text of all the pages
\* the returning tier read without an error, in page order.
C27_PageFailureSkipsPage ==
    ExtractedValid =>
        /\ extraction.result.raised = "Exception"
               <=> (OcrInvoked /\ ~extraction.arg.ocr.opens)
        /\ extraction.result.raised = "none"
               => extraction.result.text
                      = clean_text(Lines(ReturnedTierPages))

\* a returned call whose tier failed on its first page and read its second
C27_Witness ==
    /\ ExtractedValid
    /\ extraction.result.raised = "none"
    /\ Len(ReturnedTierPages) = 2
    /\ ReturnedTierPages[1].raises
    /\ ~ReturnedTierPages[2].raises
    /\ extraction.result.text = ReturnedTierPages[2].text
    /\ extraction.result.text # << >>

\* the native tiers found text in the file, the OCR was invoked and
\* recognised nothing
NativeTextDiscarded(file) ==
    /\ validate_pdf_file(file)
    /\ strip(try_text_extraction(file).text) # << >>
    /\ TextInsufficient(try_text_extraction(file).text)
    /\ file.ocr.opens
    /\ Lines(file.ocr.pages) = << >>

\* C29: when the OCR is invoked, the text and the method that
\* extract_text_from_pdf returns are those of the OCR alone, whatever the
\* native tiers had found; a file in which the native tiers found text and
\* the OCR recognised nothing yields the empty text, and process_pdf_folder
\* leaves it out.
C29_OcrReplacesNativeText ==
    /\ (ExtractedValid /\ OcrInvoked /\ extraction.result.raised = "none")
           => /\ extraction.result.text
                     = clean_text(Lines(extraction.arg.ocr.pages))
              /\ ProcessingMethod = "ocr"
              /\ MetadataGet(extraction.result.metadata, "method") = "ocr"
              /\ NativeTextDiscarded(extraction.arg)
                     => extraction.result.text = << >>
    /\ (extraction.pc = "done" /\ extraction.kind = "folder")
           => \A i \in 1..Len(extraction.arg) :
                  NativeTextDiscarded(extraction.arg[i]) =>
                      \A k \in 1..Len(extraction.result) :
                          extraction.result[k].file_path
                              # extraction.arg[i].name

\* a folder of two PDFs: the first has a short text layer and nothing for
\* the OCR and is left out, the second is returned
C29_Witness ==
    /\ extraction.pc = "done"
    /\ extraction.kind = "folder"
    /\ Len(extraction.arg) = 2
    /\ NativeTextDiscarded(extraction.arg[1])
    /\ Len(extraction.result) = 1
    /\ extraction.result[1].file_path = extraction.arg[2].name

\* the tiers a call tried, as a set
Tried == {extraction.result.tiers[i] : i \in 1..Len(extraction.result.tiers)}

\* what PyPDF2 and pdfplumber each read from the file of the call, alone
TierAText ==
    IF extraction.arg.pypdf2.opens
    THEN ReadPages(<< >>, extraction.arg.pypdf2.pages)
    ELSE << >>
TierBText ==
    IF extraction.arg.pdfplumber.opens
    THEN ReadPages(<< >>, extraction.arg.pdfplumber.pages)
    ELSE << >>

\* C22: the tiers are tried in the order PyPDF2, pdfplumber, OCR;
\* pdfplumber only when PyPDF2 failed or read nothing but whitespace, OCR
\* only when the native text is below the minimum; and the native text of a
\* file that pdfplumber read is made of pdfplumber's page texts alone.
C22_TiersInOrder ==
    ExtractedValid =>
        /\ extraction.result.tiers
               \in {<<"pypdf2">>, <<"pypdf2", "pdfplumber">>,
                    <<"pypdf2", "ocr">>, <<"pypdf2", "pdfplumber", "ocr">>}
        /\ "pdfplumber" \in Tried => strip(TierAText) = << >>
        /\ "ocr" \in Tried => TextInsufficient(NativeText)
        /\ try_text_extraction(extraction.arg).method = "pdfplumber"
               => NativeText = TierBText

\* C24: the text clean_text returns has no two whitespace characters in a
\* row and none at its start or end, also when a removed character stood
\* between two spaces, and cleaning it again returns it unchanged.
C24_CleanTextCollapsed ==
    (extraction.pc = "done" /\ extraction.kind = "clean") =>
        LET cleaned == extraction.result
        IN  /\ \A i \in 1..(Len(cleaned) - 1) :
                   ~(cleaned[i] \in Whitespace
                        /\ cleaned[i + 1] \in Whitespace)
            /\ cleaned # << >> =>
                   /\ cleaned[1] \notin Whitespace
                   /\ cleaned[Len(cleaned)] \notin Whitespace
            /\ clean_text(cleaned) = cleaned

----------------------------------------------------------------------------
(* Claims about split_pdf_content *)

\* C23: split_pdf_content returns one dict for every chunk of
\* split_text_into_chunks, in the same order, with chunk_index 0..N-1,
\* total_chunks N and chunk_id made of the file hash and the index; every
\* chunk has the items of the document metadata, and setting an item in the
\* metadata of one holder (the document or a chunk) changes the metadata of
\* no other holder.
C23_OrderedIndependentChunks ==
    chunking.pc \in {"returned", "changed"} =>
        LET chunks == split_text_into_chunks(chunking.text,
                                             chunking.max_chunk_size,
                                             chunking.overlap).chunks
            N == Len(chunking.result)
        IN  /\ N = Len(chunks)
            /\ \A i \in 1..N :
                   /\ chunking.result[i].text = chunks[i]
                   /\ chunking.result[i].chunk_index = i - 1
                   /\ chunking.result[i].total_chunks = N
                   /\ chunking.result[i].chunk_id
                          = <<MetadataGet(DocumentMetadata, "file_hash"),
                              i - 1>>
                   /\ chunking.returned[MetadataOf(i)] = DocumentMetadata
            /\ chunking.pc = "changed" =>
                   \A h \in 0..N :
                       h # chunking.changed =>
                           chunking.heap[MetadataOf(h)]
                               = chunking.returned[MetadataOf(h)]

\* a document of three chunks or more, after an item of the metadata of its
\* second chunk was replaced
C23_Witness ==
    /\ chunking.pc = "changed"
    /\ Len(chunking.result) >= 3
    /\ chunking.changed = 2
    /\ chunking.heap[MetadataOf(2)] # DocumentMetadata
    /\ chunking.heap[MetadataOf(1)] = DocumentMetadata

----------------------------------------------------------------------------
(* Claims about concurrent calls of add_documents *)

\* both calls returned, both returned True
BothDone == \A t \in Adders : adds.call[t].pc = "done"
BothCommitted == \A t \in Adders : adds.call[t].result

\* the two calls add chunks of the same file
SameFile ==
    adds.call[1].documents[1].filename = adds.call[2].documents[1].filename

\* statement number n of the log is the last one on its key among the
\* statements of the calls that committed
LastOnKey(n) ==
    /\ adds.call[adds.log[n].t].result
    /\ \A k \in (n + 1)..Len(adds.log) :
           \/ ~adds.call[adds.log[k].t].result
           \/ adds.log[k].filename # adds.log[n].filename
           \/ adds.log[k].chunk_id # adds.log[n].chunk_id

\* the document of call t with the key of log entry w
DocumentOf(w) ==
    LET documents == adds.call[w.t].documents
    IN  documents[CHOOSE i \in 1..Len(documents) :
                      SameKey(documents[i], w.filename, w.chunk_id)]

\* C20: when two adds of the same file ran at the same time, each in its
\* own transaction, and both have completed, no two rows share (filename,
\* chunk_id) and every key either of them wrote has the content, embedding
\* and metadata of the add that wrote it last (of the committed add, when
\* the other one was rolled back).
C20_LastWriteWins ==
    (BothDone /\ SameFile) =>
        /\ UniqueKey(rows)
        /\ \A n \in 1..Len(adds.log) :
               LastOnKey(n) =>
                   \E r \in rows :
                       /\ SameKey(r, adds.log[n].filename,
                                  adds.log[n].chunk_id)
                       /\ r.content = DocumentOf(adds.log[n]).content
                       /\ r.embedding
                              = EmbeddingOf(DocumentOf(adds.log[n]).content)
                       /\ r.metadata = DocumentOf(adds.log[n]).metadata

\* two adds of different versions of one file, both committed, where the
\* second call wrote chunk 0 first and the first call wrote it last
C20_Witness ==
    /\ BothDone /\ BothCommitted /\ SameFile
    /\ adds.call[1].documents[1].content
           # adds.call[2].documents[1].content
    /\ \E n \in 1..Len(adds.log) :
           /\ adds.log[n].t = 2
           /\ adds.log[n].chunk_id = 0
           /\ \E k \in (n + 1)..Len(adds.log) :
                  adds.log[k].t = 1 /\ adds.log[k].chunk_id = 0
    /\ \E r \in rows :
           /\ SameKey(r, adds.call[1].documents[1].filename, 0)
           /\ r.content = adds.call[1].documents[1].content

\* what a table stores, without the generated id and created_at
Stored(rs) ==
    {[filename |-> r.filename, file_hash |-> r.file_hash,
      chunk_id |-> r.chunk_id, content |-> r.content,
      embedding |-> r.embedding, metadata |-> r.metadata] : r \in rs}

\* the table after the add of call t and then the add of call u, one after
\* the other, from the table the two calls started from
OneAfterTheOther(t, u) ==
    LET one == AddDocuments(adds.initial, adds.call[t].documents, 0, 0, 1)
    IN  AddDocuments(one.tbl, adds.call[u].documents, 0, 0, 2).tbl.rows

\* call t is about to execute a statement that has to wait
Waiting(t) ==
    /\ adds.call[t].pc = "run"
    /\ adds.call[t].i <= Len(adds.call[t].documents)
    /\ Blocked(adds.call, t,
               WithMetadata(adds.call[t].documents[adds.call[t].i]))

\* C21: two adds of different files at the same time never wait for each
\* other, and when both have committed the table stores what it stores after
\* the two adds run one after the other, in either order (the generated id
\* and created_at of a row set aside).
C21_DifferentFilesIndependent ==
    ~SameFile =>
        /\ \A t \in Adders : ~Waiting(t)
        /\ (BothDone /\ BothCommitted) =>
               /\ UniqueKey(rows)
               /\ Stored(rows) = Stored(OneAfterTheOther(1, 2))
               /\ Stored(rows) = Stored(OneAfterTheOther(2, 1))

\* two adds of different files, both committed, where a statement of the
\* second call ran between two statements of the first, on a table that
\* already held rows
C21_Witness ==
    /\ BothDone /\ BothCommitted /\ ~SameFile
    /\ adds.initial.rows # {}
    /\ \E n \in 1..Len(adds.log) :
       \E k \in (n + 1)..Len(adds.log) :
       \E j \in (k + 1)..Len(adds.log) :
           adds.log[n].t = 1 /\ adds.log[k].t = 2 /\ adds.log[j].t = 1

----------------------------------------------------------------------------
(* Claims about the agent's history *)

\* the history holds the last HistoryLimit messages added, in their order
MostRecent ==
    LET n == Len(agent.added)
        kept == IF n > HistoryLimit THEN HistoryLimit ELSE n
    IN  /\ Len(agent.conversation_history) <= HistoryLimit
        /\ agent.conversation_history = SubSeq(agent.added, n - kept + 1, n)

\* the last call was a generate_response that appended the question and the
\* answer it returned
Appended ==
    LET history == agent.conversation_history
        n == Len(history)
    IN  /\ n >= 2
        /\ history[n - 1] = Message("user", agent.call.arg.user_question)
        /\ history[n] = Message("assistant", agent.call.response)
        /\ agent.call.response # ErrorMessage
        /\ \A i \in 1..(n - 2) :
               history[i] = agent.call.before[Len(agent.call.before)
                                                 - (n - 2) + i]

\* C30 as stated: the history is bounded and holds the most recent messages
\* in order; a generate_response with a retrieval error or a completion
\* error leaves the history as it was, any other appends the user message
\* and then the assistant message.
C30_FailedCallKeepsHistory ==
    /\ MostRecent
    /\ agent.call.kind = "generate" =>
           IF \/ agent.call.arg.retrieval = "error"
              \/ CompletionRaises(agent.call.arg.completion)
           THEN agent.conversation_history = agent.call.before
           ELSE Appended

\* C30 amended: the same, where only a completion error makes the call
\* fail; after a retrieval error the call answers without documents and
\* appends both messages.
C30_CompletionErrorKeepsHistory ==
    /\ MostRecent
    /\ agent.call.kind = "generate" =>
           IF CompletionRaises(agent.call.arg.completion)
           THEN /\ agent.conversation_history = agent.call.before
                /\ agent.call.response = ErrorMessage
           ELSE Appended

\* a generate_response on a full history whose search failed and whose
\* completion answered: the two messages are appended, the two oldest go
C30_Witness ==
    /\ agent.call.kind = "generate"
    /\ agent.call.arg.retrieval = "error"
    /\ ~CompletionRaises(agent.call.arg.completion)
    /\ Len(agent.call.before) = HistoryLimit
    /\ Len(agent.conversation_history) = HistoryLimit
    /\ Len(agent.added) > HistoryLimit
    /\ Appended

====
